---- MODULE Spec2Model ----
(***************************************************************************)
(* A model of geo_app's processing package:                                *)
(*   app/processing/ShapeCropper.py  GeoData, RasterCropper, VectorCropper,*)
(*                                   BothCropper, Application              *)
(*   app/processing/MergeRaster.py   merge_raster                          *)
(*                                                                         *)
(* The program is synchronous and single threaded, so every constructor    *)
(* and every method call is one action.  The file system (directories,     *)
(* files and their contents), the open dataset handles and the live Python *)
(* objects are the state.  Paths are sequences of components, so that      *)
(* os.path.join, os.path.dirname and mkdir(parents=True) do what they do.  *)
(* The geospatial library is modelled on a one-dimensional grid: a raster  *)
(* covers the columns x0 .. x0+width-1 of its CRS, a polygon an interval   *)
(* of columns, and a CRS is an offset of the column axis.                  *)
(***************************************************************************)
EXTENDS Naturals, Integers, Sequences, FiniteSets, TLC

VARIABLES dirs, files, handles, geo_data, cropper, last

vars == <<dirs, files, handles, geo_data, cropper, last>>

(***************************************************************************)
(* Bounds of the model.                                                    *)
(***************************************************************************)
\* the longest raster_paths list handed to merge_raster
MaxRasters == 2

(***************************************************************************)
(* Python values.                                                          *)
(***************************************************************************)
\* Optional[str]: None, or a string (a path: "" is the path of no components)
None == [isNone |-> TRUE, s |-> <<>>]

Str(p) == [isNone |-> FALSE, s |-> p]

\* the truth value Python gives an Optional[str]: None and "" are false
Truthy(o) == ~o.isNone /\ o.s # <<>>

\* os.path.join(a, b) for a relative one-component b
join(a, b) == a \o <<b>>

\* os.path.dirname(p)
dirname(p) == IF Len(p) = 0 THEN <<>> ELSE SubSeq(p, 1, Len(p) - 1)

\* getattr on an object whose attributes are the domain of a function
HasAttr(obj, a) == a \in DOMAIN obj

(***************************************************************************)
(* The input files the runs find on disk.                                  *)
(***************************************************************************)
TileA == <<"data", "a.tif">>

TileB == <<"data", "b.jp2">>

Boundary == <<"data", "boundary.shp">>

Far == <<"data", "far.shp">>

Region == <<"data", "region.shp">>

Missing == <<"data", "missing.tif">>

\* the column offset of a CRS against the reference axis
CrsOffset(crs) == IF crs = "EPSG:B" THEN 10 ELSE 0

Columns(lo, hi) == lo .. (hi - 1)

RasterFile(driver, x0, width) ==
    [kind |-> "raster",
     meta |-> [driver |-> driver, dtype |-> "uint8", count |-> 1, crs |-> "EPSG:A",
               height |-> 2, width |-> width, transform |-> x0],
     data |-> [shape |-> <<1, 2, width>>, cols |-> Columns(x0, x0 + width)]]

VectorFile(crs, lo, hi) ==
    [kind |-> "vector", crs |-> crs, geometry |-> {[lo |-> lo, hi |-> hi]}]

InputFiles ==
    (TileA :> RasterFile("GTiff", 0, 2)) @@
    (TileB :> RasterFile("JP2OpenJPEG", 2, 2)) @@
    (Boundary :> VectorFile("EPSG:B", 11, 13)) @@
    (Far :> VectorFile("EPSG:B", 30, 32)) @@
    (Region :> VectorFile("EPSG:B", 10, 12))

(***************************************************************************)
(* The arguments the callers pass.                                         *)
(***************************************************************************)
\* os.path.join(os.getcwd(), "output"), relative to the working directory
DefaultOutput == <<"output">>

ShapefileArgs == {Boundary, Far}

RasterArgs == {None, Str(<<>>), Str(TileA)}

VectorArgs == {None, Str(<<>>), Str(Region)}

\* the second one lies under a file: no directory can be made there
OutputArgs == {DefaultOutput, <<"data", "b.jp2", "out">>}

\* the library call an I/O fault of the environment makes fail, or "none"
OpenFaults == {"none", "open", "read_file"}

CropFaults == {"none", "read_file", "to_crs", "mask", "overlay", "open_w", "write"}

MergeFaults == {"none", "merge", "open_w"}

(***************************************************************************)
(* pathlib.                                                                *)
(***************************************************************************)
Prefixes(p) == {SubSeq(p, 1, n) : n \in 1 .. Len(p)}

\* mkdir without exist_ok: a directory that is there already is an error
MkdirNotExistOk(p, ds, fs) ==
    IF p \in DOMAIN fs \/ p \in ds
    THEN [ok |-> FALSE, err |-> "FileExistsError", dirs |-> ds]
    ELSE IF \E q \in Prefixes(p) : q \in DOMAIN fs
    THEN [ok |-> FALSE, err |-> "NotADirectoryError", dirs |-> ds]
    ELSE [ok |-> TRUE, err |-> "", dirs |-> ds \cup Prefixes(p)]

\* Path(p).mkdir(parents=True, exist_ok=True)
Mkdir(p, ds, fs) ==
    IF p \in DOMAIN fs
    THEN [ok |-> FALSE, err |-> "FileExistsError", dirs |-> ds]
    ELSE IF \E q \in Prefixes(p) : q \in DOMAIN fs
    THEN [ok |-> FALSE, err |-> "NotADirectoryError", dirs |-> ds]
    ELSE [ok |-> TRUE, err |-> "", dirs |-> ds \cup Prefixes(p)]

(***************************************************************************)
(* GeoData.                                                                *)
(***************************************************************************)
NoObject == [absent |-> TRUE]

\* the dataclass fields, as __init__ sets them before __post_init__ runs
GeoDataFields(shapefile_path, raster_path, vector_path, output_path) ==
    [shapefile_path |-> shapefile_path, raster_path |-> raster_path,
     vector_path |-> vector_path, output_path |-> output_path]

\* the check written with `is None`: an empty string passes it
RejectedNoneOnly(self) == self.raster_path.isNone /\ self.vector_path.isNone

\* if not self.raster_path and not self.vector_path
Rejected(self) == ~Truthy(self.raster_path) /\ ~Truthy(self.vector_path)

\* if self.raster_path
HasRaster(self) == Truthy(self.raster_path)

\* the vector directory made for every job
HasVectorAlways(self) == TRUE

\* if self.vector_path
HasVector(self) == Truthy(self.vector_path)

\* GeoData.__post_init__: the object, the directories and the error it ends with
PostInit(self, ds, fs) ==
    IF Rejected(self)
    THEN [ok |-> FALSE, err |-> "ValueError", dirs |-> ds, obj |-> self]
    ELSE
    LET root == Mkdir(self.output_path, ds, fs)
        rdir == join(self.output_path, "output_raster")
        vdir == join(self.output_path, "output_vector")
        self1 == IF HasRaster(self) THEN self @@ ("output_raster_path" :> rdir) ELSE self
        r1 == IF HasRaster(self) THEN Mkdir(rdir, root.dirs, fs)
              ELSE [ok |-> TRUE, err |-> "", dirs |-> root.dirs]
        self2 == IF HasVector(self) THEN self1 @@ ("output_vector_path" :> vdir) ELSE self1
        r2 == IF HasVector(self) THEN Mkdir(vdir, r1.dirs, fs)
              ELSE [ok |-> TRUE, err |-> "", dirs |-> r1.dirs]
    IN IF ~root.ok THEN [ok |-> FALSE, err |-> root.err, dirs |-> root.dirs, obj |-> self]
       ELSE IF ~r1.ok THEN [ok |-> FALSE, err |-> r1.err, dirs |-> r1.dirs, obj |-> self1]
       ELSE IF ~r2.ok THEN [ok |-> FALSE, err |-> r2.err, dirs |-> r2.dirs, obj |-> self2]
       ELSE [ok |-> TRUE, err |-> "", dirs |-> r2.dirs, obj |-> self2]

\* the arguments a GeoData object was constructed with
ArgsOf(geo) ==
    GeoDataFields(geo.shapefile_path, geo.raster_path, geo.vector_path, geo.output_path)

(***************************************************************************)
(* Dataset handles.  A handle is held by the object or frame that opened   *)
(* it; CPython closes a dataset when its last reference goes.  A raised    *)
(* exception keeps the frames it passed alive until the caller is done     *)
(* with it, which is when the next call starts.                            *)
(***************************************************************************)
Handle(path, mode, holder) == [path |-> path, mode |-> mode, holder |-> holder]

\* the handles left once the references named by `holders` are gone
Release(hs, holders) == {h \in hs : h.holder \notin holders}

(***************************************************************************)
(* The geospatial library, as far as the calls of this package go.         *)
(***************************************************************************)
Fail(err) == [ok |-> FALSE, err |-> err]

\* rasterio.open(path): a dataset opened for reading
rasterio_open(o, fs, fault) ==
    IF o.isNone THEN Fail("TypeError")
    ELSE IF fault = "open" \/ o.s \notin DOMAIN fs THEN Fail("RasterioIOError")
    ELSE IF fs[o.s].kind # "raster" THEN Fail("RasterioIOError")
    ELSE [ok |-> TRUE, err |-> "",
          val |-> [name |-> o.s, meta |-> fs[o.s].meta, crs |-> fs[o.s].meta.crs,
                   data |-> fs[o.s].data]]

\* gpd.read_file(path): a GeoDataFrame
read_file(p, fs, fault) ==
    IF fault = "read_file" \/ p \notin DOMAIN fs THEN Fail("DataSourceError")
    ELSE IF fs[p].kind # "vector" THEN Fail("DataSourceError")
    ELSE [ok |-> TRUE, err |-> "",
          val |-> [crs |-> fs[p].crs, geometry |-> fs[p].geometry]]

IsGeoDataFrame(v) == "geometry" \in DOMAIN v

\* GeoDataFrame.to_crs(crs): every geometry moved onto the axis of crs
to_crs(gdf, crs, fault) ==
    IF fault = "to_crs" THEN Fail("CRSError")
    ELSE LET d == CrsOffset(crs) - CrsOffset(gdf.crs)
         IN [ok |-> TRUE, err |-> "",
             val |-> [crs |-> crs,
                      geometry |-> {[lo |-> g.lo + d, hi |-> g.hi + d] : g \in gdf.geometry}]]

Min(S) == CHOOSE x \in S : \A y \in S : x <= y

Max(S) == CHOOSE x \in S : \A y \in S : x >= y

Covered(shapes) == UNION {Columns(g.lo, g.hi) : g \in shapes}

\* rasterio.mask.mask(dataset, shapes, crop=True): (array, transform)
mask(dataset, shapes, fault) ==
    LET hit == dataset.data.cols \cap Covered(shapes)
    IN IF fault = "mask" THEN Fail("RasterioIOError")
       ELSE IF hit = {} THEN Fail("ValueError")
       ELSE [ok |-> TRUE, err |-> "",
             array |-> [shape |-> <<dataset.meta.count, dataset.meta.height,
                                    Max(hit) - Min(hit) + 1>>,
                        cols |-> hit],
             transform |-> Min(hit)]

\* gpd.overlay(df1, df2, how="intersection")
overlay(df1, df2, fault) ==
    IF ~IsGeoDataFrame(df1) \/ ~IsGeoDataFrame(df2) THEN Fail("AttributeError")
    ELSE IF fault = "overlay" THEN Fail("GEOSException")
    ELSE [ok |-> TRUE, err |-> "",
          val |-> [crs |-> df1.crs,
                   geometry |-> {[lo |-> IF a.lo > b.lo THEN a.lo ELSE b.lo,
                                  hi |-> IF a.hi < b.hi THEN a.hi ELSE b.hi] :
                                 <<a, b>> \in {<<x, y>> \in df1.geometry \X df2.geometry :
                                               x.lo < y.hi /\ y.lo < x.hi}}]]

\* raster_meta = meta.copy(); raster_meta.update({driver, height, width, transform})
MetaUpdate(meta, array, transform) ==
    [meta EXCEPT !.driver = "GTiff", !.height = array.shape[2],
                 !.width = array.shape[3], !.transform = transform]

NoArray == [shape |-> <<>>, cols |-> {}]

\* with rasterio.open(path, "w", **meta) as dst: dst.write(array)
\* opening creates the file; the block closes its handle on every way out, so it
\* leaves none open
WriteRaster(path, meta, array, fs, ds, fault) ==
    IF fault = "open_w" \/ path \in ds \/ dirname(path) \notin ds \cup {<<>>}
    THEN [ok |-> FALSE, err |-> "RasterioIOError", files |-> fs, wrote |-> {},
          steps |-> <<"open_w">>, open |-> {}]
    ELSE IF fault = "write"
    THEN [ok |-> FALSE, err |-> "RasterioIOError",
          files |-> (path :> [kind |-> "raster", meta |-> meta, data |-> NoArray]) @@ fs,
          wrote |-> {path}, steps |-> <<"open_w", "write", "close">>, open |-> {}]
    ELSE [ok |-> TRUE, err |-> "",
          files |-> (path :> [kind |-> "raster", meta |-> meta, data |-> array]) @@ fs,
          wrote |-> {path}, steps |-> <<"open_w", "write", "close">>, open |-> {}]

\* GeoDataFrame.to_file(path)
to_file(gdf, path, fs, ds, fault) ==
    IF fault = "write" \/ path \in ds \/ dirname(path) \notin ds \cup {<<>>}
    THEN [ok |-> FALSE, err |-> "DriverError", files |-> fs, wrote |-> {},
          steps |-> <<"to_file">>, open |-> {}]
    ELSE [ok |-> TRUE, err |-> "",
          files |-> (path :> [kind |-> "vector", crs |-> gdf.crs,
                              geometry |-> gdf.geometry]) @@ fs,
          wrote |-> {path}, steps |-> <<"to_file">>, open |-> {}]

(***************************************************************************)
(* The croppers.  A cropper object is its class and its attributes.  A     *)
(* method that goes on after a call that may raise is written as the call  *)
(* and an operator for the lines after it.                                 *)
(***************************************************************************)
\* an exception leaves the method: nothing more is written
Stop(err, steps, fs) ==
    [ok |-> FALSE, err |-> err, steps |-> steps, files |-> fs, wrote |-> {}, open |-> {}]

\* the result of a library call, with the calls made so far
Step(r, steps) == r @@ [steps |-> steps]

\* the result of a write, with the calls made and the files written before it
After(steps, wrote, w) == [w EXCEPT !.steps = steps \o @, !.wrote = wrote \cup @]

\* RasterCropper.__post_init__
RasterPostInit(geo, fs, fault) ==
    LET self == [class |-> "RasterCropper", geo_data |-> geo]
        r == rasterio_open(geo.raster_path, fs, fault)
    IN IF ~r.ok THEN [ok |-> FALSE, err |-> r.err, steps |-> <<"open">>, obj |-> self,
                      opened |-> {}]
       ELSE [ok |-> TRUE, err |-> "", steps |-> <<"open">>,
             obj |-> self @@ ("raster" :> r.val), opened |-> {r.val.name}]

\* the shapefile used in the CRS it was read in
ReprojectedNot(shapefile, crs, fault) ==
    IF ~shapefile.ok THEN Step(shapefile, <<"read_file">>)
    ELSE Step(shapefile, <<"read_file", "to_crs">>)

\* shapefile.to_crs(crs) of the shapefile gpd.read_file gave
Reprojected(shapefile, crs, fault) ==
    IF ~shapefile.ok THEN Step(shapefile, <<"read_file">>)
    ELSE Step(to_crs(shapefile.val, crs, fault), <<"read_file", "to_crs">>)

\* RasterCropper.transform_crs
RasterTransformCrs(self, fs, fault) ==
    Reprojected(read_file(self.geo_data.shapefile_path, fs, fault), self.raster.crs, fault)

\* a mask whose error is swallowed: an empty array stands for the crop
MaskedSilently(self, t, fault) ==
    IF ~t.ok THEN t
    ELSE LET m == mask(self.raster, t.val.geometry, fault)
         IN IF m.ok THEN Step(m, t.steps \o <<"mask">>)
            ELSE [ok |-> TRUE, err |-> "", steps |-> t.steps \o <<"mask">>,
                  array |-> [shape |-> <<self.raster.meta.count, 0, 0>>, cols |-> {}],
                  transform |-> self.raster.meta.transform]

\* mask(dataset=self.raster, shapes=shapefile_transformed.geometry, crop=True)
Masked(self, t, fault) ==
    IF ~t.ok THEN t
    ELSE Step(mask(self.raster, t.val.geometry, fault), t.steps \o <<"mask">>)

\* RasterCropper.crop
RasterCrop(self, fs, fault) == Masked(self, RasterTransformCrs(self, fs, fault), fault)

\* RasterCropper.execute, from the crop on
RasterSave(self, c, fs, ds, fault) ==
    IF ~c.ok THEN Stop(c.err, c.steps, fs)
    ELSE IF ~HasAttr(self.geo_data, "output_raster_path")
    THEN Stop("AttributeError", c.steps, fs)
    ELSE After(c.steps, {},
               WriteRaster(join(self.geo_data.output_raster_path, "raster_cropped.tif"),
                           MetaUpdate(self.raster.meta, c.array, c.transform),
                           c.array, fs, ds, fault))

\* RasterCropper.execute
RasterExecute(self, fs, ds, fault) ==
    IF ~HasAttr(self, "raster") THEN Stop("AttributeError", <<>>, fs)
    ELSE RasterSave(self, RasterCrop(self, fs, fault), fs, ds, fault)

\* VectorCropper.__post_init__
VectorPostInit(geo, fs, fault) ==
    LET self == [class |-> "VectorCropper", geo_data |-> geo]
        r == read_file(geo.shapefile_path, fs, fault)
    IN IF ~r.ok THEN [ok |-> FALSE, err |-> r.err, steps |-> <<"read_file">>, obj |-> self,
                      opened |-> {}]
       ELSE [ok |-> TRUE, err |-> "", steps |-> <<"read_file">>,
             obj |-> self @@ ("shapefile" :> r.val), opened |-> {}]

\* VectorCropper.transform_crs: self.geo_data.get_crs is read before to_crs is called
VectorTransformCrs(self, fault) ==
    IF ~HasAttr(self.geo_data, "get_crs") THEN Step(Fail("AttributeError"), <<"get_crs">>)
    ELSE Step(to_crs(self.shapefile, self.geo_data.get_crs, fault), <<"get_crs", "to_crs">>)

\* gpd.overlay(shapefile_transformed, self.geo_data.vector_path, how="intersection"):
\* the second argument is the path string, not a layer read from it
Overlaid(self, t, steps, fault) ==
    Step(overlay(t.val, self.geo_data.vector_path, fault), steps \o <<"overlay">>)

\* VectorCropper.crop
VectorCropped(self, t, fault) == IF ~t.ok THEN t ELSE Overlaid(self, t, t.steps, fault)

VectorCrop(self, fault) == VectorCropped(self, VectorTransformCrs(self, fault), fault)

\* VectorCropper.execute, from the crop on
VectorSave(self, c, fs, ds, fault) ==
    IF ~c.ok THEN Stop(c.err, c.steps, fs)
    ELSE IF ~HasAttr(self.geo_data, "output_vector_path")
    THEN Stop("AttributeError", c.steps, fs)
    ELSE After(c.steps, {},
               to_file(c.val, join(self.geo_data.output_vector_path, "vector_cropped.shp"),
                       fs, ds, fault))

\* VectorCropper.execute
VectorExecute(self, fs, ds, fault) ==
    IF ~HasAttr(self, "shapefile") THEN Stop("AttributeError", <<>>, fs)
    ELSE VectorSave(self, VectorCrop(self, fault), fs, ds, fault)

\* BothCropper.__post_init__
BothPostInit(geo, fs, fault) ==
    LET self == [class |-> "BothCropper", geo_data |-> geo]
        r == rasterio_open(geo.raster_path, fs, fault)
        self1 == self @@ ("raster" :> r.val)
        s == read_file(geo.shapefile_path, fs, fault)
    IN IF ~r.ok THEN [ok |-> FALSE, err |-> r.err, steps |-> <<"open">>, obj |-> self,
                      opened |-> {}]
       ELSE IF ~s.ok THEN [ok |-> FALSE, err |-> s.err, steps |-> <<"open", "read_file">>,
                           obj |-> self1, opened |-> {r.val.name}]
       ELSE [ok |-> TRUE, err |-> "", steps |-> <<"open", "read_file">>,
             obj |-> self1 @@ ("shapefile" :> s.val), opened |-> {r.val.name}]

\* BothCropper.transform_crs
BothTransformCrs(self, fault) ==
    Step(to_crs(self.shapefile, self.raster.crs, fault), <<"to_crs">>)

\* what BothCropper.crop returns: the cropped raster, its transform, the cropped vector
BothResult(m, v) ==
    IF ~v.ok THEN v
    ELSE [ok |-> TRUE, err |-> "", steps |-> v.steps, array |-> m.array,
          transform |-> m.transform, vector |-> v.val]

\* BothCropper.crop, from the mask on: the overlay takes the same reprojected shapefile
BothOverlaid(self, t, m, fault) ==
    IF ~m.ok THEN m ELSE BothResult(m, Overlaid(self, t, m.steps, fault))

\* BothCropper.crop, from the reprojection on
BothCropped(self, t, fault) ==
    IF ~t.ok THEN t ELSE BothOverlaid(self, t, Masked(self, t, fault), fault)

\* BothCropper.crop
BothCrop(self, fault) == BothCropped(self, BothTransformCrs(self, fault), fault)

\* BothCropper.execute, from the raster write on
BothSaveVector(self, c, w, ds, fault) ==
    IF ~w.ok THEN w
    ELSE IF ~HasAttr(self.geo_data, "output_vector_path")
    THEN [w EXCEPT !.ok = FALSE, !.err = "AttributeError"]
    ELSE After(w.steps, w.wrote,
               to_file(c.vector, join(self.geo_data.output_vector_path, "vector_cropped.shp"),
                       w.files, ds, fault))

\* BothCropper.execute, from the crop on
BothSave(self, c, fs, ds, fault) ==
    IF ~c.ok THEN Stop(c.err, c.steps, fs)
    ELSE IF ~HasAttr(self.geo_data, "output_raster_path")
    THEN Stop("AttributeError", c.steps, fs)
    ELSE BothSaveVector(self, c,
             After(c.steps, {},
                   WriteRaster(join(self.geo_data.output_raster_path, "raster_cropped.tif"),
                               MetaUpdate(self.raster.meta, c.array, c.transform),
                               c.array, fs, ds, fault)),
             ds, fault)

\* BothCropper.execute
BothExecute(self, fs, ds, fault) ==
    IF ~HasAttr(self, "raster") \/ ~HasAttr(self, "shapefile")
    THEN Stop("AttributeError", <<>>, fs)
    ELSE BothSave(self, BothCrop(self, fault), fs, ds, fault)

\* cropper.execute(): the method of the object's class
Execute(class, self, fs, ds, fault) ==
    CASE class = "RasterCropper" -> RasterExecute(self, fs, ds, fault)
      [] class = "VectorCropper" -> VectorExecute(self, fs, ds, fault)
      [] class = "BothCropper" -> BothExecute(self, fs, ds, fault)

(***************************************************************************)
(* Application.                                                            *)
(***************************************************************************)
\* the variant the inputs of a job call for
VariantFor(geo) ==
    IF Truthy(geo.raster_path) /\ Truthy(geo.vector_path) THEN "BothCropper"
    ELSE IF Truthy(geo.raster_path) THEN "RasterCropper"
    ELSE "VectorCropper"

\* a runner that picks the variant from the inputs of its job
DispatchByInputs(app) == VariantFor(app.geo_data)

\* Application.execute: self.cropper.execute(), the class of the cropper it was given
Dispatch(app) == app.cropper.class

(***************************************************************************)
(* merge_raster.                                                           *)
(***************************************************************************)
\* rasterio.merge.merge(datasets): (array, transform)
merge(datasets, fault) ==
    LET cols == UNION {datasets[i].data.cols : i \in 1 .. Len(datasets)}
    IN IF datasets = <<>> THEN Fail("IndexError")
       ELSE IF fault = "merge" THEN Fail("RasterioIOError")
       ELSE [ok |-> TRUE, err |-> "",
             array |-> [shape |-> <<datasets[1].meta.count, datasets[1].meta.height,
                                    Max(cols) - Min(cols) + 1>>,
                        cols |-> cols],
             transform |-> Min(cols)]

\* [rasterio.open(path) for path in raster_paths]: the datasets opened before the
\* first failure, and that failure
RECURSIVE OpenAll(_, _, _)
OpenAll(raster_paths, fs, fault) ==
    IF raster_paths = <<>> THEN [ok |-> TRUE, err |-> "", val |-> <<>>]
    ELSE LET r == rasterio_open(Str(Head(raster_paths)), fs, fault)
             rest == OpenAll(Tail(raster_paths), fs, fault)
         IN IF ~r.ok THEN [ok |-> FALSE, err |-> r.err, val |-> <<>>]
            ELSE [ok |-> rest.ok, err |-> rest.err, val |-> <<r.val>> \o rest.val]

\* the default path whatever output_path is
MergeTargetDefault(raster_paths, output_path) ==
    join(dirname(raster_paths[1]), "raster_merged.tif")

\* the path merge_raster writes to
MergeTarget(raster_paths, output_path) ==
    IF output_path.isNone THEN join(dirname(raster_paths[1]), "raster_merged.tif")
    ELSE output_path.s

\* merge_raster(raster_paths, output_path)
merge_raster(raster_paths, output_path, fs, ds, fault) ==
    LET o == OpenAll(raster_paths, fs, fault)
        opened == {o.val[i].name : i \in 1 .. Len(o.val)}
        m == merge(o.val, fault)
        w == WriteRaster(MergeTarget(raster_paths, output_path),
                         MetaUpdate(o.val[1].meta, m.array, m.transform),
                         m.array, fs, ds, fault)
    IN IF ~o.ok THEN Stop(o.err, <<"open">>, fs) @@ [opened |-> opened]
       ELSE IF ~m.ok THEN Stop(m.err, <<"open", "merge">>, fs) @@ [opened |-> opened]
       ELSE [ok |-> w.ok, err |-> w.err, steps |-> <<"open", "merge">> \o w.steps,
             files |-> w.files, wrote |-> w.wrote, open |-> w.open, opened |-> opened]

(***************************************************************************)
(* The record of the call that ended last.                                 *)
(***************************************************************************)
Outcome(op, input, fault, ran, created, again, r) ==
    [op |-> op, input |-> input, fault |-> fault, ok |-> r.ok, err |-> r.err,
     steps |-> r.steps, wrote |-> r.wrote, created |-> created, ran |-> ran,
     again |-> again]

NoCall ==
    [op |-> "none", input |-> NoObject, fault |-> "none", ok |-> TRUE, err |-> "",
     steps |-> <<>>, wrote |-> {}, created |-> {}, ran |-> "none", again |-> FALSE]

(***************************************************************************)
(* The state after start-up, and the calls.  The caller works on one job   *)
(* at a time: a new GeoData replaces the job and the cropper of the        *)
(* previous one, and a new cropper replaces the previous cropper.          *)
(***************************************************************************)
Init ==
    /\ dirs = {<<"data">>}
    /\ files = InputFiles
    /\ handles = {}
    /\ geo_data = NoObject
    /\ cropper = NoObject
    /\ last = NoCall

\* geo_data = GeoData(shapefile_path, raster_path, vector_path, output_path)
NewGeoData ==
    \E sp \in ShapefileArgs, rp \in RasterArgs, vp \in VectorArgs, op \in OutputArgs :
        LET self == GeoDataFields(sp, rp, vp, op)
            r == PostInit(self, dirs, files)
        IN /\ dirs' = r.dirs
           /\ geo_data' = IF r.ok THEN r.obj ELSE NoObject
           /\ cropper' = NoObject
           /\ handles' = Release(handles, {"cropper", "traceback"})
           /\ last' = Outcome("GeoData", self, "none", "none", r.dirs \ dirs,
                              geo_data # NoObject /\ ArgsOf(geo_data) = self,
                              [ok |-> r.ok, err |-> r.err, steps |-> <<>>, wrote |-> {}])
           /\ UNCHANGED files

\* cropper = RasterCropper(geo_data) / VectorCropper(geo_data) / BothCropper(geo_data)
NewCropper(class, r, fault) ==
    /\ cropper' = IF r.ok THEN r.obj ELSE NoObject
    /\ handles' = {Handle(p, "r", IF r.ok THEN "cropper" ELSE "traceback") : p \in r.opened}
    /\ last' = Outcome(class, geo_data, fault, "none", {}, FALSE,
                       [ok |-> r.ok, err |-> r.err, steps |-> r.steps, wrote |-> {}])
    /\ UNCHANGED <<dirs, files, geo_data>>

NewRasterCropper ==
    /\ geo_data # NoObject
    /\ \E fault \in OpenFaults \ {"read_file"} :
           NewCropper("RasterCropper", RasterPostInit(geo_data, files, fault), fault)

NewVectorCropper ==
    /\ geo_data # NoObject
    /\ \E fault \in OpenFaults \ {"open"} :
           NewCropper("VectorCropper", VectorPostInit(geo_data, files, fault), fault)

NewBothCropper ==
    /\ geo_data # NoObject
    /\ \E fault \in OpenFaults :
           NewCropper("BothCropper", BothPostInit(geo_data, files, fault), fault)

Executed(op, class, fault) ==
    LET r == Execute(class, cropper, files, dirs, fault)
    IN /\ files' = r.files
       /\ handles' = Release(handles, {"traceback"}) \cup r.open
       /\ last' = Outcome(op, cropper.geo_data, fault, class, {}, FALSE, r)
       /\ UNCHANGED <<dirs, geo_data, cropper>>

\* cropper.execute()
CropperExecute ==
    /\ cropper # NoObject
    /\ \E fault \in CropFaults : Executed("execute", cropper.class, fault)

\* Application(geo_data, cropper).execute()
ApplicationExecute ==
    /\ geo_data # NoObject
    /\ cropper # NoObject
    /\ \E fault \in CropFaults :
           Executed("Application.execute",
                    Dispatch([geo_data |-> geo_data, cropper |-> cropper]), fault)

RasterPathArgs == {TileA, TileB, Missing}

RECURSIVE SeqsUpTo(_, _)
SeqsUpTo(S, n) ==
    IF n = 0 THEN {<<>>}
    ELSE LET shorter == SeqsUpTo(S, n - 1)
         IN shorter \cup {Append(q, x) : q \in shorter, x \in S}

MergeOutputArgs == {None, Str(<<"data", "merged.tif">>)}

\* merge_raster(raster_paths, output_path)
MergeRaster ==
    \E raster_paths \in SeqsUpTo(RasterPathArgs, MaxRasters),
       output_path \in MergeOutputArgs, fault \in MergeFaults :
        LET r == merge_raster(raster_paths, output_path, files, dirs, fault)
        IN /\ files' = r.files
           /\ handles' = {Handle(p, "r", "traceback") : p \in IF r.ok THEN {} ELSE r.opened}
                         \cup r.open
           /\ last' = Outcome("merge_raster",
                              [raster_paths |-> raster_paths, output_path |-> output_path],
                              fault, "none", {}, FALSE, r)
           /\ UNCHANGED <<dirs, geo_data, cropper>>

Next ==
    \/ NewGeoData
    \/ NewRasterCropper
    \/ NewVectorCropper
    \/ NewBothCropper
    \/ CropperExecute
    \/ ApplicationExecute

Spec == Init /\ [][Next]_vars

NextMerge == MergeRaster

SpecMerge == Init /\ [][NextMerge]_vars

(***************************************************************************)
(* The claims.  They read the record of the call that ended last.          *)
(***************************************************************************)
\* a path argument that is set: neither None nor the empty string
Supplied(o) == o # None /\ o # Str(<<>>)

ExecuteOps == {"execute", "Application.execute"}

CropperClasses == {"RasterCropper", "VectorCropper", "BothCropper"}

RasterDir(a) == a.output_path \o <<"output_raster">>

VectorDir(a) == a.output_path \o <<"output_vector">>

RasterOut(a) == a.output_path \o <<"output_raster", "raster_cropped.tif">>

VectorOut(a) == a.output_path \o <<"output_vector", "vector_cropped.shp">>

\* the directories a job with the arguments a calls for
WantedDirs(a) ==
    {a.output_path}
    \cup (IF Supplied(a.raster_path) THEN {RasterDir(a)} ELSE {})
    \cup (IF Supplied(a.vector_path) THEN {VectorDir(a)} ELSE {})

\* C1: a GeoData with neither raster_path nor vector_path set (None or empty) fails
\* with ValueError, whatever the shapefile and the output root, and creates no
\* directory.
C1_RejectsMissingInputs ==
    (last.op = "GeoData" /\ ~Supplied(last.input.raster_path)
                         /\ ~Supplied(last.input.vector_path))
    => /\ ~last.ok
       /\ last.err = "ValueError"
       /\ last.created = {}
       /\ geo_data = NoObject

C1_Witness ==
    /\ last.op = "GeoData"
    /\ last.input.raster_path = Str(<<>>)
    /\ last.input.vector_path = None
    /\ last.err = "ValueError"
    /\ RasterDir(last.input) \in dirs
    /\ VectorDir(last.input) \notin dirs

\* C2: after a successful GeoData construction the output root exists, output_raster
\* exists and is the job's output_raster_path exactly when raster_path is set,
\* output_vector likewise for vector_path, and the construction has created no
\* directory the inputs do not call for.
C2_DirectoryTree ==
    (last.op = "GeoData" /\ last.ok)
    => /\ WantedDirs(last.input) \subseteq dirs
       /\ last.created \subseteq WantedDirs(last.input) \cup Prefixes(last.input.output_path)
       /\ HasAttr(geo_data, "output_raster_path") <=> Supplied(last.input.raster_path)
       /\ HasAttr(geo_data, "output_vector_path") <=> Supplied(last.input.vector_path)
       /\ Supplied(last.input.raster_path)
              => geo_data.output_raster_path = RasterDir(last.input)
       /\ Supplied(last.input.vector_path)
              => geo_data.output_vector_path = VectorDir(last.input)

C2_Witness ==
    /\ last.op = "GeoData"
    /\ last.ok
    /\ Supplied(last.input.raster_path)
    /\ ~Supplied(last.input.vector_path)
    /\ last.created = {last.input.output_path, RasterDir(last.input)}
    /\ VectorDir(last.input) \notin dirs

\* C3, as claimed: the variant Application.execute runs is the one the inputs of the
\* job call for.
C3_SelectsByInputs ==
    last.op = "Application.execute" => last.ran = VariantFor(geo_data)

\* C3, amended: Application.execute runs execute() of the cropper it was given,
\* whatever the inputs of the job; a RasterCropper or BothCropper that runs was built
\* on a job whose raster_path is set.
C3_RunsGivenCropper ==
    last.op = "Application.execute"
    => /\ last.ran = cropper.class
       /\ last.ran \in {"RasterCropper", "BothCropper"}
              => Supplied(cropper.geo_data.raster_path)

C3_Witness ==
    /\ last.op = "Application.execute"
    /\ last.ran = "RasterCropper"
    /\ Supplied(geo_data.raster_path)
    /\ Supplied(geo_data.vector_path)
    /\ last.ok

\* C4: RasterCropper.execute on a job with only raster_path set, the library calls
\* succeeding, reads and reprojects the shapefile to the raster's CRS, masks, then
\* writes, on the raster opened when the cropper was built; it writes exactly
\* <output_root>/output_raster/raster_cropped.tif, the crop of the raster to the
\* reprojected polygon, and creates no directory and no vector file.
C4_RasterOnlyExecute ==
    (/\ last.op \in ExecuteOps
     /\ last.ran = "RasterCropper"
     /\ Supplied(last.input.raster_path)
     /\ ~Supplied(last.input.vector_path)
     /\ last.input.shapefile_path = Boundary
     /\ last.fault \notin {"read_file", "to_crs", "mask", "open_w", "write"})
    => /\ last.ok
       /\ last.steps = <<"read_file", "to_crs", "mask", "open_w", "write", "close">>
       /\ [path |-> last.input.raster_path.s, mode |-> "r", holder |-> "cropper"] \in handles
       /\ last.wrote = {RasterOut(last.input)}
       /\ files[RasterOut(last.input)] =
              [kind |-> "raster",
               meta |-> [driver |-> "GTiff", dtype |-> "uint8", count |-> 1,
                         crs |-> "EPSG:A", height |-> 2, width |-> 1, transform |-> 1],
               data |-> [shape |-> <<1, 2, 1>>, cols |-> {1}]]
       /\ last.created = {}
       /\ ~HasAttr(last.input, "output_vector_path")
       /\ VectorOut(last.input) \notin DOMAIN files

C4_Witness ==
    /\ last.op = "execute"
    /\ last.ran = "RasterCropper"
    /\ ~Supplied(last.input.vector_path)
    /\ last.ok
    /\ RasterOut(last.input) \in last.wrote
    /\ VectorDir(last.input) \notin dirs

\* C5, as claimed: VectorCropper.execute on a job with vector_path set and readable
\* inputs completes and writes <output_root>/output_vector/vector_cropped.shp.
C5_VectorExecuteWrites ==
    (/\ last.op \in ExecuteOps
     /\ last.ran = "VectorCropper"
     /\ Supplied(last.input.vector_path)
     /\ last.fault = "none")
    => /\ last.ok
       /\ last.wrote = {VectorOut(last.input)}

\* C6, as claimed: BothCropper.execute on a job with both paths set and readable
\* inputs completes having written raster_cropped.tif and vector_cropped.shp.
C6_BothExecuteWrites ==
    (/\ last.op \in ExecuteOps
     /\ last.ran = "BothCropper"
     /\ Supplied(last.input.raster_path)
     /\ Supplied(last.input.vector_path)
     /\ last.input.shapefile_path = Boundary
     /\ last.fault = "none")
    => /\ last.ok
       /\ last.wrote = {RasterOut(last.input), VectorOut(last.input)}

\* a call of execute() that meets a failure of reading, reprojection, mask or overlay
FailsBeforeWriting ==
    \/ /\ last.ran = "RasterCropper"
       /\ last.fault \in {"read_file", "to_crs", "mask"} \/ last.input.shapefile_path = Far
    \/ /\ last.ran = "BothCropper"
       /\ last.fault \in {"to_crs", "mask", "overlay"} \/ last.input.shapefile_path = Far
    \/ /\ last.ran = "VectorCropper"
       /\ last.fault \in {"to_crs", "overlay"}

\* C7: no cropper catches an error.  If opening an input, reprojection, mask or
\* overlay fails, the call ends with an error and has written no file; a polygon
\* disjoint from the raster ends RasterCropper.execute with the mask's ValueError;
\* a cropper whose input cannot be opened is not built.
C7_FailureWritesNothing ==
    /\ (last.op \in ExecuteOps /\ FailsBeforeWriting)
       => /\ ~last.ok
          /\ last.err # ""
          /\ last.wrote = {}
          /\ last.steps # <<>>
          /\ last.steps[Len(last.steps)] \in {"read_file", "get_crs", "to_crs", "mask", "overlay"}
    /\ (/\ last.op \in ExecuteOps
        /\ last.ran = "RasterCropper"
        /\ last.fault \notin {"read_file", "to_crs", "mask"}
        /\ last.input.shapefile_path = Far)
       => /\ last.err = "ValueError"
          /\ last.steps = <<"read_file", "to_crs", "mask">>
    /\ (last.op \in CropperClasses /\ last.fault # "none")
       => /\ ~last.ok
          /\ last.err # ""
          /\ last.wrote = {}
          /\ cropper = NoObject

C7_Witness ==
    /\ last.op \in ExecuteOps
    /\ last.ran = "BothCropper"
    /\ last.fault = "none"
    /\ last.steps = <<"to_crs", "mask", "overlay">>
    /\ ~last.ok
    /\ last.wrote = {}

\* the columns the rasters at the paths cover together
MergedCols(paths) == UNION {InputFiles[paths[i]].data.cols : i \in 1 .. Len(paths)}

\* C8: merge_raster on a non-empty list of openable rasters writes exactly one file, at
\* output_path when it is given and else at <directory of raster_paths[0]>/
\* raster_merged.tif; its metadata are the first input's with driver, height, width
\* and transform replaced by those of the merged array.  On an empty list it fails
\* and writes nothing.
C8_MergeWritesOneFile ==
    last.op = "merge_raster"
    => LET paths == last.input.raster_paths
           out == last.input.output_path
           target == IF out = None
                     THEN SubSeq(paths[1], 1, Len(paths[1]) - 1) \o <<"raster_merged.tif">>
                     ELSE out.s
           cols == MergedCols(paths)
       IN /\ paths = <<>> => ~last.ok /\ last.err = "IndexError" /\ last.wrote = {}
          /\ (/\ paths # <<>>
              /\ \A i \in 1 .. Len(paths) : paths[i] \in {TileA, TileB}
              /\ last.fault = "none")
             => /\ last.ok
                /\ last.wrote = {target}
                /\ files[target].data.cols = cols
                /\ files[target].meta =
                       [InputFiles[paths[1]].meta EXCEPT
                            !.driver = "GTiff",
                            !.height = InputFiles[paths[1]].meta.height,
                            !.width = Max(cols) - Min(cols) + 1,
                            !.transform = Min(cols)]

C8_Witness ==
    /\ last.op = "merge_raster"
    /\ last.input.raster_paths = <<TileB, TileA>>
    /\ last.input.output_path = None
    /\ last.ok
    /\ last.wrote = {<<"data", "raster_merged.tif">>}
    /\ files[<<"data", "raster_merged.tif">>].meta.driver = "GTiff"
    /\ files[<<"data", "raster_merged.tif">>].meta.width = 4

\* C9: constructing a GeoData again with the arguments of the job in hand, its
\* directories existing, succeeds and leaves the directories as they were.
C9_RepeatIsIdempotent ==
    (last.op = "GeoData" /\ last.again)
    => /\ last.ok
       /\ last.created = {}
       /\ ArgsOf(geo_data) = last.input
       /\ WantedDirs(last.input) \subseteq dirs

C9_Witness ==
    /\ last.op = "GeoData"
    /\ last.again
    /\ last.ok
    /\ Supplied(last.input.raster_path)
    /\ Supplied(last.input.vector_path)
    /\ RasterOut(last.input) \in DOMAIN files

\* C10, as claimed: once RasterCropper.execute or BothCropper.execute has returned or
\* failed, no dataset handle is open any more.
C10_HandlesReleased ==
    (last.op \in ExecuteOps /\ last.ran \in {"RasterCropper", "BothCropper"})
    => handles = {}

====
